---- MODULE Spec2Model ----
(***************************************************************************)
(* add_echoes (pycbc/waveform/echoeswaveformPComega_pycbc.py) as a state   *)
(* machine: one call of the routine, one action per statement group, in    *)
(* the order the source executes them.                                     *)
(*                                                                         *)
(* Numbers.  Times, sample spacings, amplitudes and samples are integers;  *)
(* a quotient x/timestep is kept exact and ceil()/round() are computed on  *)
(* the exact quotient (round() is Python 3's round-half-to-even).          *)
(* Arrays are sequences; the source's index i (0-based) is i+1 here.       *)
(* tanh() is represented by its saturation limits, so the taper            *)
(* 0.5*(1+tanh(x)) takes the values 0, 1/2, 1 and is kept in half-units    *)
(* (tapercoeff = 0, 1, 2); the tapered seed and the output buffers are     *)
(* therefore in half-units as well.                                        *)
(***************************************************************************)
EXTENDS Integers, Sequences, FiniteSets, TLC

\* ---------------------------------------------------------------- bounds
MaxLen == 3        \* longest input waveform (samples)
MaxTime == 2       \* t_echo and del_t_echo range over -MaxTime..MaxTime
MaxEchoes == 2     \* n_echoes ranges over 0..MaxEchoes

SampleVals == {-1, 0, 1}        \* sample values of the varied waveforms
FreqVals == {0, 1}            \* values a frequency estimate may take
DeltaTVals == {1, 2}          \* input sample spacings (the container keeps delta_t > 0)
T0Vals == {-1, 0}             \* t0trunc
AmplitudeVals == {1, 2}
GammaVals == {2, 3}

None == <<>>                  \* timestep=None; an override v is <<v>>

VARIABLES
    \* arguments of the call
    hp, hc, delta_t, t0trunc, t_echo, del_t_echo, n_echoes, amplitude, gamma,
    timestep_arg,
    \* locals of add_echoes
    timestep, t_merger, omega, omega_temp,
    first_zero_index_hp, first_zero_index_hc,
    hp_numpy, hc_numpy, hparray, hcarray, j,
    \* control and outcome
    pc, err, result,
    \* observations of the run (what was printed, read and written)
    active, warned, omega_est, read_index, fill_index, last_write

args == <<hp, hc, delta_t, t0trunc, t_echo, del_t_echo, n_echoes, amplitude,
          gamma, timestep_arg>>
freqs == <<omega, omega_temp, first_zero_index_hp, first_zero_index_hc>>
echo == <<hp_numpy, hc_numpy, hparray, hcarray, j>>
obs == <<active, warned, omega_est, read_index, fill_index, last_write>>
vars == <<args, timestep, t_merger, freqs, echo, pc, err, result, obs>>

\* ------------------------------------------------------------ arithmetic
Max(a, b) == IF a >= b THEN a ELSE b
Min(a, b) == IF a <= b THEN a ELSE b
Sign(x) == IF x > 0 THEN 1 ELSE IF x < 0 THEN -1 ELSE 0

\* floor(p/q), q # 0
FloorDiv(p, q) == IF q > 0 THEN p \div q ELSE (-p) \div (-q)

\* Ceil with the fraction dropped instead of rounded up (int() alone)
CeilTruncated(p, q) == FloorDiv(p, q)

\* int(np.ceil(p * 1.0 / q)), q # 0
Ceil(p, q) == -FloorDiv(-p, q)

\* int(round(p * 1.0 / q)), q # 0: ties go to the even neighbour
Round(p, q) ==
    LET pp == IF q > 0 THEN p ELSE -p
        qq == IF q > 0 THEN q ELSE -q
        fl == pp \div qq
        r2 == 2 * (pp - fl * qq)
    IN  IF r2 < qq THEN fl
        ELSE IF r2 > qq THEN fl + 1
        ELSE IF fl % 2 = 0 THEN fl ELSE fl + 1

RECURSIVE Pow(_, _)
Pow(b, e) == IF e = 0 THEN 1 ELSE b * Pow(b, e - 1)

Zeros(n) == [i \in 1..n |-> 0]

\* ------------------------------------------------- library semantics used
\* np.absolute(hp + 1j*hc), kept as its square (same ordering, same ties)
Absolute(p, c) == [i \in 1..Len(p) |-> p[i] * p[i] + c[i] * c[i]]

\* np.argmax: the scan keeps the running best and replaces it only by a
\* strictly larger entry; the result is a 0-based index
\* ArgMaxScan replacing the running best on ties as well (last maximum)
RECURSIVE ArgMaxScanLast(_, _, _)
ArgMaxScanLast(a, i, best) ==
    IF i > Len(a) THEN best
    ELSE ArgMaxScanLast(a, i + 1, IF a[i] >= a[best] THEN i ELSE best)

RECURSIVE ArgMaxScan(_, _, _)
ArgMaxScan(a, i, best) ==
    IF i > Len(a) THEN best
    ELSE ArgMaxScan(a, i + 1, IF a[i] > a[best] THEN i ELSE best)

ArgMax(a) == ArgMaxScan(a, 2, 1) - 1

\* hp.sample_times[i], i 0-based; the epoch is taken as 0
SampleTime(i) == i * delta_t

\* number of leading / trailing exact zeros of x
RECURSIVE LeadingZeros(_)
LeadingZeros(x) ==
    IF x = <<>> \/ Head(x) # 0 THEN 0 ELSE 1 + LeadingZeros(Tail(x))

RECURSIVE TrailingZeros(_)
TrailingZeros(x) ==
    IF x = <<>> \/ x[Len(x)] # 0 THEN 0
    ELSE 1 + TrailingZeros(SubSeq(x, 1, Len(x) - 1))

\* TimeSeries.trim_zeros(): leading and trailing exact zeros removed
TrimZeros(x) ==
    IF LeadingZeros(x) = Len(x) THEN <<>>
    ELSE SubSeq(x, LeadingZeros(x) + 1, Len(x) - TrailingZeros(x))

\* A well-formed trimmed pair: equal, non-zero lengths.
WellFormedPair(tp, tc) == Len(tp) = Len(tc) /\ Len(tp) > 0

\* The lengths an estimate may have: one value per trimmed sample; for a
\* pair trimmed to different lengths, the length of either channel.
EstimateLengths(tp, tc) == {Len(tp), Len(tc)}

\* 2 pi * utils.frequency_from_polarizations(tp, tc): the outcomes of the
\* call.  The values of an estimate are any of FreqVals.  A well-formed pair
\* always has an estimate; for any other pair (a channel trimmed to nothing,
\* channels trimmed to different lengths) the call may fail or go on.
FrequencyFromPolarizations(tp, tc) ==
    LET estimates == UNION {[1..n -> FreqVals] : n \in EstimateLengths(tp, tc)}
    IN  {[ok |-> TRUE, est |-> e] : e \in estimates}
            \cup (IF WellFormedPair(tp, tc) THEN {} ELSE {[ok |-> FALSE, est |-> <<>>]})

\* pycbc.types.TimeSeries(initial_array, delta_t, epoch): whether the
\* container is built.  It is for a non-empty array with delta_t > 0; otherwise
\* it may be refused.
TimeSeriesOutcomes(initial_array, dt) ==
    IF dt > 0 /\ Len(initial_array) > 0 THEN {TRUE} ELSE {TRUE, FALSE}

\* numpy basic slicing a[start:stop] on an array of length B: negative
\* indices count from the end, then both ends are clipped to 0..B.
NormIndex(i, B) == IF i < 0 THEN Max(i + B, 0) ELSE Min(i, B)
SliceLo(B, start) == NormIndex(start, B)
SliceHi(B, start, stop) == Max(NormIndex(stop, B), NormIndex(start, B))
SliceLen(B, start, stop) == SliceHi(B, start, stop) - SliceLo(B, start)

\* a value of shape (L,) can be added into a slice of shape (m,)
CanBroadcast(m, L) == m = L \/ L = 1

\* buf[start:stop] += v
IAdd(buf, start, stop, v) ==
    LET lo == SliceLo(Len(buf), start)
        hi == SliceHi(Len(buf), start, stop)
    IN  [i \in 1..Len(buf) |->
            IF lo < i /\ i <= hi
            THEN buf[i] + (IF Len(v) = 1 THEN v[1] ELSE v[i - lo])
            ELSE buf[i]]

\* v * k, elementwise
Scaled(v, k) == [i \in 1..Len(v) |-> v[i] * k]

\* ------------------------------------------------------------- truncfunc
\* 2 * 0.5 * (1 + tanh(0.5 * omega_of_t * (t - t_merger - t0))), tanh at its
\* saturation limits
truncfunc(t, t0, tm, omega_of_t) == 1 + Sign(omega_of_t * (t - tm - t0))

\* ------------------------------------------------------------------ Init
\* The call's arguments.  Both channels are non-empty and of equal length
\* and delta_t > 0 (the time-series container's invariants).  Two families
\* of calls: every waveform pair over SampleVals with a nominal echo train,
\* and a ramp waveform with every echo parameter in range.
TimestepArgs == {None, <<-1>>, <<0>>, <<2>>}
TimeVals == (-MaxTime)..MaxTime

Ramp(L) == [i \in 1..L |-> i]
RampDown(L) == [i \in 1..L |-> L + 1 - i]

WaveFamily ==
    /\ \E L \in 1..MaxLen : hp \in [1..L -> SampleVals] /\ hc \in [1..L -> SampleVals]
    /\ delta_t \in DeltaTVals
    /\ t0trunc = -1
    /\ timestep_arg = None
    /\ t_echo = 1
    /\ del_t_echo = 1
    /\ n_echoes = 2
    /\ amplitude = 1
    /\ gamma = 2

EchoFamily ==
    /\ \E L \in 1..MaxLen : hp = Ramp(L) /\ hc = RampDown(L)
    /\ delta_t = 1
    /\ t0trunc \in T0Vals
    /\ timestep_arg \in TimestepArgs
    /\ t_echo \in TimeVals
    /\ del_t_echo \in TimeVals
    /\ n_echoes \in 0..MaxEchoes
    /\ amplitude \in AmplitudeVals
    /\ gamma \in GammaVals

Init ==
    /\ WaveFamily \/ EchoFamily
    /\ timestep = 0
    /\ t_merger = 0
    /\ omega = <<>>
    /\ omega_temp = <<>>
    /\ first_zero_index_hp = 0
    /\ first_zero_index_hc = 0
    /\ hp_numpy = <<>>
    /\ hc_numpy = <<>>
    /\ hparray = <<>>
    /\ hcarray = <<>>
    /\ j = 0
    /\ pc = "timestep"
    /\ err = "none"
    /\ result = <<>>
    /\ active = FALSE
    /\ warned = FALSE
    /\ omega_est = <<>>
    /\ read_index = -1
    /\ fill_index = -1
    /\ last_write = <<>>

Raise(e) == pc' = "error" /\ err' = e

\* --------------------------------------------------------------- actions
\* lines 51-52: if timestep is None: timestep = hp.delta_t
ResolveTimestep ==
    /\ pc = "timestep"
    /\ timestep' = IF timestep_arg = None THEN delta_t ELSE timestep_arg[1]
    /\ pc' = "merger"
    /\ UNCHANGED <<args, t_merger, freqs, echo, err, result, obs>>

\* lines 54-61: t_merger = sample_times[argmax(|hp + i hc|)]
LocateMerger ==
    /\ pc = "merger"
    /\ t_merger' = SampleTime(ArgMax(Absolute(hp, hc)))
    /\ pc' = "estimate"
    /\ UNCHANGED <<args, timestep, freqs, echo, err, result, obs>>

\* lines 65-66: omega = 2. * np.pi * utils.frequency_from_polarizations(
\*                                       hp.trim_zeros(), hc.trim_zeros())
EstimateFrequency ==
    /\ pc = "estimate"
    /\ \E r \in FrequencyFromPolarizations(TrimZeros(hp), TrimZeros(hc)) :
         IF r.ok
         THEN /\ omega' = r.est
              /\ omega_est' = r.est
              /\ pc' = "zerocheck"
              /\ err' = err
         ELSE /\ Raise("InvalidInput")
              /\ UNCHANGED <<omega, omega_est>>
    /\ UNCHANGED <<args, timestep, t_merger, omega_temp, first_zero_index_hp,
                   first_zero_index_hc, echo, result, active, warned,
                   read_index, fill_index, last_write>>

\* lines 68-73: omega_temp = zeros; if hp[0] == 0 and hc[0] == 0: print('Active')
ZeroRunCheck ==
    /\ pc = "zerocheck"
    /\ omega_temp' = Zeros(Len(hp))
    /\ first_zero_index_hp' = 0
    /\ first_zero_index_hc' = 0
    /\ IF hp[1] = 0 /\ hc[1] = 0
       THEN active' = TRUE /\ pc' = "scan_hp"
       ELSE active' = active /\ pc' = "resize"
    /\ UNCHANGED <<args, timestep, t_merger, omega, echo, err, result, warned,
                   omega_est, read_index, fill_index, last_write>>

\* lines 75-76: while hp[first_zero_index_hp] == 0: first_zero_index_hp += 1
\* (one evaluation of the loop condition per step)
ScanHp ==
    /\ pc = "scan_hp"
    /\ read_index' = first_zero_index_hp
    /\ IF first_zero_index_hp >= Len(hp)
       THEN Raise("IndexError") /\ UNCHANGED first_zero_index_hp
       ELSE /\ err' = err
            /\ IF hp[first_zero_index_hp + 1] = 0
               THEN first_zero_index_hp' = first_zero_index_hp + 1 /\ pc' = pc
               ELSE UNCHANGED first_zero_index_hp /\ pc' = "scan_hc"
    /\ UNCHANGED <<args, timestep, t_merger, omega, omega_temp,
                   first_zero_index_hc, echo, result, active, warned, omega_est,
                   fill_index, last_write>>

\* lines 78-79: while hc[first_zero_index_hc] == 0: first_zero_index_hc += 1
ScanHc ==
    /\ pc = "scan_hc"
    /\ read_index' = first_zero_index_hc
    /\ IF first_zero_index_hc >= Len(hc)
       THEN Raise("IndexError") /\ UNCHANGED first_zero_index_hc
       ELSE /\ err' = err
            /\ IF hc[first_zero_index_hc + 1] = 0
               THEN first_zero_index_hc' = first_zero_index_hc + 1 /\ pc' = pc
               ELSE UNCHANGED first_zero_index_hc /\ pc' = "fill"
    /\ UNCHANGED <<args, timestep, t_merger, omega, omega_temp,
                   first_zero_index_hp, echo, result, active, warned, omega_est,
                   fill_index, last_write>>

\* lines 81-85: warn on unequal counts; omega_temp[:b] = omega[b]; omega = omega_temp
ZeroRunFill ==
    /\ pc = "fill"
    /\ warned' = (first_zero_index_hp # first_zero_index_hc)
    /\ LET b == Max(first_zero_index_hp, first_zero_index_hc)
       IN  /\ fill_index' = b
           /\ IF b >= Len(omega)
              THEN Raise("IndexError") /\ UNCHANGED <<omega, omega_temp>>
              ELSE /\ omega_temp' = [i \in 1..Len(omega_temp) |->
                                       IF i <= b THEN omega[b + 1] ELSE omega_temp[i]]
                   /\ omega' = omega_temp'
                   /\ pc' = "resize"
                   /\ err' = err
    /\ UNCHANGED <<args, timestep, t_merger, first_zero_index_hp,
                   first_zero_index_hc, echo, result, active, omega_est,
                   read_index, last_write>>

\* line 87: omega.resize(len(template)): truncated or zero-padded
Resize ==
    /\ pc = "resize"
    /\ omega' = [i \in 1..Len(hp) |-> IF i <= Len(omega) THEN omega[i] ELSE 0]
    /\ pc' = "taper"
    /\ UNCHANGED <<args, timestep, t_merger, omega_temp, first_zero_index_hp,
                   first_zero_index_hc, echo, err, result, obs>>

\* lines 90-99: hp_numpy, hc_numpy multiplied by the taper
Taper ==
    /\ pc = "taper"
    /\ LET tapercoeff == [i \in 1..Len(hp) |->
                            truncfunc(SampleTime(i - 1), t0trunc, t_merger, omega[i])]
       IN  /\ hp_numpy' = [i \in 1..Len(hp) |-> hp[i] * tapercoeff[i]]
           /\ hc_numpy' = [i \in 1..Len(hc) |-> hc[i] * tapercoeff[i]]
    /\ pc' = "alloc"
    /\ UNCHANGED <<args, timestep, t_merger, freqs, hparray, hcarray, j, err,
                   result, obs>>

\* lines 103-111: hparray = hcarray = zeros(len + int(ceil((t_echo + n_echoes*del_t_echo)/timestep)))
OutputLength == Len(hp) + Ceil(t_echo + n_echoes * del_t_echo, timestep)

Allocate ==
    /\ pc = "alloc"
    /\ IF timestep = 0
       THEN Raise("ZeroDivisionError") /\ UNCHANGED <<hparray, hcarray>>
       ELSE IF OutputLength < 0
       THEN Raise("ValueError") /\ UNCHANGED <<hparray, hcarray>>
       ELSE /\ hparray' = Zeros(OutputLength)
            /\ hcarray' = Zeros(OutputLength)
            /\ pc' = "first_echo"
            /\ err' = err
    /\ UNCHANGED <<args, timestep, t_merger, freqs, hp_numpy, hc_numpy, j,
                   result, obs>>

\* the sample offset of echo k: int(round((t_echo + del_t_echo * k) / timestep))
EchoSteps(k) == Round(t_echo + del_t_echo * k, timestep)

\* the factor of echo k >= 1: amplitude * gamma**k * (-1.0)**(k+1)
EchoFactor(k) == amplitude * Pow(gamma, k) * Pow(-1, k + 1)

\* hparray[s:s+length] += hp_numpy * f  and the same for hcarray
AddEcho(s, f, next) ==
    /\ last_write' = <<s, s + Len(hp_numpy)>>
    /\ IF CanBroadcast(SliceLen(Len(hparray), s, s + Len(hp_numpy)), Len(hp_numpy))
       THEN /\ hparray' = IAdd(hparray, s, s + Len(hp_numpy), Scaled(hp_numpy, f))
            /\ hcarray' = IAdd(hcarray, s, s + Len(hc_numpy), Scaled(hc_numpy, f))
            /\ pc' = "loop"
            /\ j' = next
            /\ err' = err
       ELSE Raise("ValueError") /\ UNCHANGED <<hparray, hcarray, j>>

\* lines 117-125: the first echo, at t_echo_steps, times amplitude * -1.0
FirstEcho ==
    /\ pc = "first_echo"
    /\ AddEcho(EchoSteps(0), amplitude * (-1), 1)
    /\ UNCHANGED <<args, timestep, t_merger, freqs, hp_numpy, hc_numpy, result,
                   active, warned, omega_est, read_index, fill_index>>

\* lines 129-139: for j in range(1, int(n_echoes)): one iteration
NextEcho ==
    /\ pc = "loop"
    /\ j < n_echoes
    /\ AddEcho(EchoSteps(j), EchoFactor(j), j + 1)
    /\ UNCHANGED <<args, timestep, t_merger, freqs, hp_numpy, hc_numpy, result,
                   active, warned, omega_est, read_index, fill_index>>

\* lines 141-144: the two time series are built and returned
Return ==
    /\ pc = "loop"
    /\ j >= n_echoes
    /\ \E built \in TimeSeriesOutcomes(hparray, timestep) :
         IF built
         THEN /\ result' = <<hparray, hcarray, timestep>>
              /\ pc' = "done"
              /\ err' = err
         ELSE Raise("ValueError") /\ UNCHANGED result
    /\ UNCHANGED <<args, timestep, t_merger, freqs, echo, obs>>

Next ==
    \/ ResolveTimestep
    \/ LocateMerger
    \/ EstimateFrequency
    \/ ZeroRunCheck
    \/ ScanHp
    \/ ScanHc
    \/ ZeroRunFill
    \/ Resize
    \/ Taper
    \/ Allocate
    \/ FirstEcho
    \/ NextEcho
    \/ Return

Spec == Init /\ [][Next]_vars

\* ------------------------------------------------------------ properties
\* states in which the frequency array has been handed to the taper
FrequencyArrayBuilt == pc \in {"taper", "alloc", "first_echo", "loop", "done"}

\* states past the zero-run stage of a call that did not fail in it
PastZeroRunStage == pc \in {"resize", "taper", "alloc", "first_echo", "loop", "done"}

\* the sample spacing the call asks for: the override, else the input's
RequestedTimestep == IF timestep_arg = None THEN delta_t ELSE timestep_arg[1]

\* C1: a call with n_echoes >= 1 and timestep > 0 that returns, returns two
\* sequences of length L + ceil((t_echo + n_echoes*del_t_echo)/timestep):
\* the extension c is the least integer with c*timestep >= t_echo +
\* n_echoes*del_t_echo, timestep being the input's spacing without override.
C1_OutputLength ==
    (pc = "done" /\ n_echoes >= 1 /\ RequestedTimestep > 0) =>
        LET c == Len(result[1]) - Len(hp)
            x == t_echo + n_echoes * del_t_echo
        IN  /\ Len(result[2]) = Len(result[1])
            /\ c * RequestedTimestep >= x
            /\ (c - 1) * RequestedTimestep < x

\* C1 witness: a returned call without override whose quotient is fractional
\* (3 / 2, extension 2) on a 3-sample input
C1_Witness ==
    /\ pc = "done"
    /\ timestep_arg = None
    /\ delta_t = 2
    /\ n_echoes = 2
    /\ Len(hp) = 3
    /\ Len(result[1]) = 5

\* the contribution the claim assigns to sample i (0-based) from echoes 0..k-1
RECURSIVE EchoSum(_, _, _)
EchoSum(seed, i, k) ==
    IF k = 0 THEN 0
    ELSE LET off == Round(t_echo + del_t_echo * (k - 1), timestep)
         IN  EchoSum(seed, i, k - 1)
             + (IF off <= i /\ i < off + Len(seed)
                THEN amplitude * Pow(gamma, k - 1) * Pow(-1, k) * seed[i - off + 1]
                ELSE 0)

\* C2: for n_echoes >= 1 every sample of each returned buffer is the sum of
\* amplitude * gamma^j * (-1)^(j+1) * seed[i - offset_j] over the echoes j
\* whose range [offset_j, offset_j + L) contains i (zero when none does).
C2_Superposition ==
    (pc = "done" /\ n_echoes >= 1) =>
        \A i \in 0..(Len(result[1]) - 1) :
            /\ result[1][i + 1] = EchoSum(hp_numpy, i, n_echoes)
            /\ result[2][i + 1] = EchoSum(hc_numpy, i, n_echoes)

\* The same equation on the calls the interface admits (t_echo >= 0 and
\* timestep > 0): there it holds.
SuperpositionOnAdmittedCalls ==
    (t_echo >= 0 /\ RequestedTimestep > 0) => C2_Superposition

\* C3: when both channels have the same leading zero-run length k >= 1, the
\* first k entries of the frequency array handed to the taper are equal to
\* one another and to that array's entry at index k.
C3_ZeroRunSymmetry ==
    (FrequencyArrayBuilt /\ LeadingZeros(hp) = LeadingZeros(hc)
        /\ LeadingZeros(hp) >= 1 /\ LeadingZeros(hp) < Len(hp)) =>
        \A i \in 1..LeadingZeros(hp) : omega[i] = omega[LeadingZeros(hp) + 1]

\* C4: when the zero-run correction was applied with boundary b, every index
\* i >= b of the frequency array, as far as the estimate reaches, holds the
\* estimate's value for that sample (the estimate read at i, or at i - b,
\* counting from the first non-zero sample), not the initial fill.
C4_ComputedFrequencyKept ==
    (FrequencyArrayBuilt /\ active) =>
        \A i \in fill_index..(Min(Len(hp), Len(omega_est)) - 1) :
            \/ omega[i + 1] = omega_est[i + 1]
            \/ omega[i + 1] = omega_est[i - fill_index + 1]

\* C5: whenever the leading zero-run lengths of the channels differ, the
\* warning is emitted and the correction is applied with the larger length
\* as boundary; the correction is skipped only when neither channel begins
\* with an exact zero.
C5_AsymmetricZeroRuns ==
    PastZeroRunStage =>
        /\ (LeadingZeros(hp) # LeadingZeros(hc)) =>
                /\ warned
                /\ active
                /\ fill_index = Max(LeadingZeros(hp), LeadingZeros(hc))
        /\ ~active => (hp[1] # 0 /\ hc[1] # 0)

\* C6: a call with n_echoes < 1, timestep <= 0 or t_echo < 0 never returns
\* output buffers.
C6_InvalidParametersRejected ==
    (n_echoes < 1 \/ RequestedTimestep <= 0 \/ t_echo < 0) => pc # "done"

\* C7: the merger time is the sample time of the lowest index at which
\* hp^2 + hc^2 is maximal: no sample is larger, no earlier sample is equal.
C7_MergerAtFirstMaximum ==
    (pc \notin {"timestep", "merger"}) =>
        \E m \in 1..Len(hp) :
            /\ t_merger = (m - 1) * delta_t
            /\ \A i \in 1..Len(hp) :
                 hp[i] * hp[i] + hc[i] * hc[i] <= hp[m] * hp[m] + hc[m] * hc[m]
            /\ \A i \in 1..(m - 1) :
                 hp[i] * hp[i] + hc[i] * hc[i] < hp[m] * hp[m] + hc[m] * hc[m]

\* C7 witness: the maximum is attained twice, first at index 1 and again at
\* the last sample, and the merger time is that of index 1
C7_Witness ==
    /\ pc = "estimate"
    /\ Len(hp) = 3
    /\ hp = <<0, 1, -1>>
    /\ hc = <<0, 0, 0>>
    /\ delta_t = 2
    /\ t_merger = 2

\* C8: for n_echoes >= 1, timestep > 0 and t_echo >= 0 every echo is written
\* to a range [offset, offset + L) with 0 <= offset and offset + L <= the
\* allocated buffer length.
C8_WriteRangeInBuffer ==
    (n_echoes >= 1 /\ RequestedTimestep > 0 /\ t_echo >= 0 /\ last_write # <<>>) =>
        /\ 0 <= last_write[1]
        /\ last_write[2] <= Len(hp) + Ceil(t_echo + n_echoes * del_t_echo, RequestedTimestep)

\* The same bound when the echoes do not move backwards (del_t_echo >= 0):
\* there it holds.
WriteRangeInBufferForwardTrain ==
    del_t_echo >= 0 => C8_WriteRangeInBuffer

\* C9: the leading zero-run scan never reads a sample at an index >= N.
C9_ScanReadsInBounds == read_index < Len(hp)

\* C10: when the correction is applied to channels that each hold a non-zero
\* sample, the index used to read the fill value lies inside the estimate.
C10_FillIndexInsideEstimate ==
    (fill_index >= 0 /\ LeadingZeros(hp) < Len(hp) /\ LeadingZeros(hc) < Len(hc)) =>
        fill_index < Len(omega_est)

====
